---- MODULE Spec2Model ----
(***************************************************************************)
(* State-machine model of the Karchain frontend real-time connection       *)
(* layer: the useWebSocket hook (src/unnamed/part_000, lines 180-394).     *)
(*                                                                         *)
(* The hook's refs and React state are the fields of one record, the       *)
(* "world" w, together with the browser objects the hook owns: the         *)
(* WebSocket objects it created and the timers it scheduled.  Every        *)
(* handler of the hook is an operator from a world to a world, so that a   *)
(* browser task that runs several handlers (an error event followed by a   *)
(* close event, manualReconnect calling connect) is their composition.     *)
(***************************************************************************)
EXTENDS Naturals, FiniteSets, Sequences, TLC

VARIABLES
    isConnected,          \* useState(false)
    lastMessage,          \* useState(null)
    connectionStatus,     \* useState('disconnected')
    wsRef,                \* useRef<WebSocket|null>: a socket id, NULL for null
    reconnectTimeoutRef,  \* useRef: a timer id, NULL for null
    connectDelayRef,      \* useRef: a timer id, NULL for null
    pingIntervalRef,      \* useRef: a timer id, NULL for null
    shouldReconnect,      \* useRef(true)
    reconnectAttemptsRef, \* useRef(0)
    isConnectingRef,      \* useRef(false)
    sockets,              \* the WebSocket objects that can still deliver an event
    timers,               \* the pending timeouts and intervals of the event loop
    mounted,              \* whether the hook's effect is active
    started,              \* history: the effect or manualReconnect has run once
    prevDelay,            \* history: last backoff delay scheduled since the last open
    manualSince,          \* history: manualReconnect ran since prevDelay was recorded
    out,                  \* what the last task did (observable outputs of the step)
    listeners,            \* window's event listeners added by the consumers
    invalidateTimer,      \* the pending invalidate timeouts of the useGames consumers
    burst,                \* history: per consumer, the window opened by a notification
    cout                  \* what the consumers did in the last task

vars == <<isConnected, lastMessage, connectionStatus, wsRef, reconnectTimeoutRef,
          connectDelayRef, pingIntervalRef, shouldReconnect, reconnectAttemptsRef,
          isConnectingRef, sockets, timers, mounted, started, prevDelay,
          manualSince, out, listeners, invalidateTimer, burst, cout>>

(***************************************************************************)
(* Bounds of the exploration and constants of the program.                 *)
(***************************************************************************)
MaxSockets == 2        \* WebSocket objects alive at once (closing ones included)
MaxAttempts == 5       \* consecutive failures the environment may inflict

BaseDelayMs == 1000
MaxDelayMs == 30000
ConnectDelayMs == 150
PingIntervalMs == 30000

NULL == 0

Min(a, b) == IF a <= b THEN a ELSE b

(***************************************************************************)
(* Inbound frames.  A raw frame is text; JSON.parse either throws or       *)
(* yields a value.  A frame is modelled by what JSON.parse makes of it.    *)
(***************************************************************************)
NoField == "undefined"

Msg(type, data_type, data) == [type |-> type, data_type |-> data_type, data |-> data]

NoFrame == [text |-> NoField, json |-> FALSE, value |-> Msg(NoField, NoField, NoField)]

RawFrames ==
    { [text |-> "not json", json |-> FALSE, value |-> Msg(NoField, NoField, NoField)],
      [text |-> "games", json |-> TRUE, value |-> Msg("data_update", "games", "d1")],
      [text |-> "pong", json |-> TRUE, value |-> Msg("pong", NoField, NoField)] }

NoMessage == Msg("null", NoField, NoField)

\* mutant: text that is not JSON is taken for a games update
JSONParse_GarbageIsUpdate(raw) ==
    IF raw.json THEN <<FALSE, raw.value>>
    ELSE <<FALSE, Msg("data_update", "games", NoField)>>

\* JSON.parse(event.data): <<threw, value>>
JSONParse(raw) == IF raw.json THEN <<FALSE, raw.value>> ELSE <<TRUE, NoMessage>>

(***************************************************************************)
(* The world record.                                                       *)
(***************************************************************************)
NoOut == [op |-> "init", ws |-> NULL, connect |-> "none", scheduled |-> 0,
          pinged |-> FALSE, dispatched |-> <<>>, cancelled |-> {},
          late |-> "none", wasConnected |-> FALSE, busyBefore |-> FALSE,
          attemptsBefore |-> 0, sent |-> <<>>, frame |-> NoFrame]

World == [isConnected |-> isConnected, lastMessage |-> lastMessage,
          connectionStatus |-> connectionStatus, wsRef |-> wsRef,
          reconnectTimeoutRef |-> reconnectTimeoutRef,
          connectDelayRef |-> connectDelayRef, pingIntervalRef |-> pingIntervalRef,
          shouldReconnect |-> shouldReconnect,
          reconnectAttemptsRef |-> reconnectAttemptsRef,
          isConnectingRef |-> isConnectingRef, sockets |-> sockets,
          timers |-> timers, prevDelay |-> prevDelay,
          manualSince |-> manualSince, out |-> out]

\* ws.readyState; an object that delivered its close event is CLOSED for good
ReadyState(w, s) == IF s \in DOMAIN w.sockets THEN w.sockets[s].readyState ELSE "CLOSED"

\* the socket the manager holds is connecting or open
Active(w) == w.wsRef # NULL /\ ReadyState(w, w.wsRef) \in {"CONNECTING", "OPEN"}

\* new WebSocket(url) yields an object distinct from every object still referenced
FreshSocket(w) ==
    CHOOSE i \in 1..(Cardinality(DOMAIN w.sockets) + Cardinality(w.timers) + 2) :
        /\ i \notin DOMAIN w.sockets
        /\ i # w.wsRef
        /\ \A t \in w.timers : t.ws # i

\* setTimeout / setInterval return a handle distinct from every handle still held
FreshTimer(w) ==
    CHOOSE i \in 1..(Cardinality(w.timers) + 4) :
        /\ \A t \in w.timers : t.id # i
        /\ i \notin {w.reconnectTimeoutRef, w.connectDelayRef, w.pingIntervalRef}

\* clearTimeout(id) / clearInterval(id): a handle that is not pending is ignored
ClearTimer(ts, id) == {t \in ts : t.id # id}

\* WebSocket.close(): starts the closing handshake of a connecting or open socket
CloseSocket(socks, s, by) ==
    IF s \in DOMAIN socks /\ socks[s].readyState \in {"CONNECTING", "OPEN"}
    THEN [socks EXCEPT ![s] = [readyState |-> "CLOSING", detachedBy |-> by]]
    ELSE socks

\* mutant: the cap is missing
BackoffDelay_NoCap(n) == BaseDelayMs * (2 ^ n)

\* Math.min(30000, 1000 * Math.pow(2, n))
BackoffDelay(n) == Min(MaxDelayMs, BaseDelayMs * (2 ^ n))

(***************************************************************************)
(* The handlers of useWebSocket, each a function from world to world.      *)
(***************************************************************************)

\* if (ref.current) clearTimeout(ref.current): the ref keeps the stale handle
ClearIfSet(w, id) ==
    IF id # NULL THEN [w EXCEPT !.timers = ClearTimer(w.timers, id)] ELSE w

\* if (wsRef.current) { wsRef.current.close(); wsRef.current = null; }
CloseAndForget(w, by) ==
    IF w.wsRef # NULL
    THEN [w EXCEPT !.sockets = CloseSocket(w.sockets, w.wsRef, by), !.wsRef = NULL]
    ELSE w

\* reconnectTimeoutRef.current = setTimeout(..., delayMs), the old one cleared
SetReconnectTimer(w, delayMs, via) ==
    LET w1 == ClearIfSet(w, w.reconnectTimeoutRef)
        id == FreshTimer(w1)
    IN  [w1 EXCEPT !.timers = w1.timers \cup {[id |-> id, kind |-> "reconnect",
                                               delay |-> delayMs, ws |-> NULL,
                                               via |-> via]},
                   !.reconnectTimeoutRef = id,
                   !.prevDelay = delayMs,
                   !.manualSince = FALSE,
                   !.out.scheduled = delayMs]

\* mutant: the guard misses (as the hook's first version, which had none)
ConnectBusy_Never(w) == FALSE

\* mutant: the guard forgets the socket that is still connecting
ConnectBusy_OpenOnly(w) == w.wsRef # NULL /\ ReadyState(w, w.wsRef) = "OPEN"

\* the single-in-flight guard of connect
ConnectBusy(w) ==
    \/ w.isConnectingRef
    \/ /\ w.wsRef # NULL
       /\ ReadyState(w, w.wsRef) \in {"OPEN", "CONNECTING"}

\* mutant: the delay is computed before the counter is incremented
ScheduleReconnect_DelayBeforeIncrement(w, via) ==
    LET n == w.reconnectAttemptsRef + 1
    IN  SetReconnectTimer([w EXCEPT !.reconnectAttemptsRef = n],
                          BackoffDelay(w.reconnectAttemptsRef), via)

\* mutant: the manager gives up after three failed attempts
ScheduleReconnect_GivesUp(w, via) ==
    LET n == w.reconnectAttemptsRef + 1
    IN  IF n > 3
        THEN [w EXCEPT !.reconnectAttemptsRef = n]
        ELSE SetReconnectTimer([w EXCEPT !.reconnectAttemptsRef = n],
                               BackoffDelay(n), via)

\* "Auto-reconnect with backoff": count the failure, replace the reconnect timer
ScheduleReconnect(w, via) ==
    LET n == w.reconnectAttemptsRef + 1
        delayMs == BackoffDelay(n)
    IN  SetReconnectTimer([w EXCEPT !.reconnectAttemptsRef = n], delayMs, via)

\* connect(); throws says whether new WebSocket(url) throws
Connect(w, throws) ==
    IF ~w.shouldReconnect THEN [w EXCEPT !.out.connect = "unmounted"]
    ELSE IF ConnectBusy(w) THEN [w EXCEPT !.out.connect = "busy"]
    ELSE
        LET w1 == [w EXCEPT !.isConnectingRef = TRUE,
                            !.connectionStatus = "connecting"]
        IN  IF throws
            THEN \* catch (error)
                 LET w2 == [w1 EXCEPT !.isConnectingRef = FALSE,
                                      !.out.connect = "threw"]
                 IN  IF w2.shouldReconnect
                     THEN ScheduleReconnect(
                              [w2 EXCEPT !.connectionStatus = "connecting"], "catch")
                     ELSE w2
            ELSE LET s == FreshSocket(w1)
                 IN  [w1 EXCEPT !.sockets = [x \in DOMAIN w1.sockets \cup {s} |->
                                                IF x = s
                                                THEN [readyState |-> "CONNECTING",
                                                      detachedBy |-> "none"]
                                                ELSE w1.sockets[x]],
                                !.wsRef = s,
                                !.out.connect = "created"]

\* onopen once its two guards passed: Connected, counter reset, heartbeat started
OpenTransition(w, s) ==
    LET w1 == ClearIfSet([w EXCEPT !.isConnectingRef = FALSE,
                                   !.isConnected = TRUE,
                                   !.connectionStatus = "connected",
                                   !.reconnectAttemptsRef = 0,
                                   !.prevDelay = 0,
                                   !.manualSince = FALSE],
                         w.pingIntervalRef)
        id == FreshTimer(w1)
    IN  [w1 EXCEPT !.timers = w1.timers \cup {[id |-> id, kind |-> "ping",
                                               delay |-> PingIntervalMs, ws |-> s,
                                               via |-> "onopen"]},
                   !.pingIntervalRef = id]

\* mutant: a successful open leaves the attempt counter as it was
OnOpen_NoReset(w, s) ==
    IF w.wsRef # s THEN w
    ELSE IF ~w.shouldReconnect
    THEN [w EXCEPT !.sockets = CloseSocket(w.sockets, s, "unmounted")]
    ELSE [OpenTransition(w, s) EXCEPT !.reconnectAttemptsRef = w.reconnectAttemptsRef]

\* ws.onopen of socket s
OnOpen(w, s) ==
    IF w.wsRef # s THEN w
    ELSE IF ~w.shouldReconnect
    THEN [w EXCEPT !.sockets = CloseSocket(w.sockets, s, "unmounted")]
    ELSE OpenTransition(w, s)

\* mutant: the event is published without its payload
DispatchEvent_NoDetail(w, name, detail) ==
    [w EXCEPT !.out.dispatched = Append(w.out.dispatched, <<name, NoField>>)]

\* window.dispatchEvent(new CustomEvent(name, { detail }))
DispatchEvent(w, name, detail) ==
    [w EXCEPT !.out.dispatched = Append(w.out.dispatched, <<name, detail>>)]

\* mutant: an envelope of type error puts the manager in an error state
OnMessage_ErrorSetsStatus(w, s, raw) ==
    IF w.wsRef # s \/ ~w.shouldReconnect THEN w
    ELSE
        LET parsed == JSONParse(raw)
            message == parsed[2]
            w1 == [w EXCEPT !.lastMessage = message]
        IN  IF parsed[1] THEN w
            ELSE IF message = NoMessage THEN w1
            ELSE IF message.type = "error"
            THEN [w1 EXCEPT !.connectionStatus = "error", !.isConnected = FALSE]
            ELSE IF message.type # "data_update" THEN w1
            ELSE IF message.data_type = "games"
            THEN DispatchEvent(w1, "gamesUpdated", message.data)
            ELSE IF message.data_type = "players"
            THEN DispatchEvent(w1, "playersUpdated", message.data)
            ELSE IF message.data_type = "player_props"
            THEN DispatchEvent(w1, "propsUpdated", message.data)
            ELSE w1

\* ws.onmessage of socket s with event.data = raw
OnMessage(w, s, raw) ==
    IF w.wsRef # s THEN w
    ELSE IF ~w.shouldReconnect THEN w
    ELSE
        LET parsed == JSONParse(raw)
        IN  IF parsed[1] THEN w   \* JSON.parse threw: caught and logged
            ELSE
                LET message == parsed[2]
                    w1 == [w EXCEPT !.lastMessage = message]
                IN  IF message = NoMessage THEN w1  \* null.type throws: caught
                    ELSE IF message.type = "data_update"
                    THEN IF message.data_type = "games"
                         THEN DispatchEvent(w1, "gamesUpdated", message.data)
                         ELSE IF message.data_type = "players"
                         THEN DispatchEvent(w1, "playersUpdated", message.data)
                         ELSE IF message.data_type = "player_props"
                         THEN DispatchEvent(w1, "propsUpdated", message.data)
                         ELSE w1
                    ELSE w1   \* connection, pong, error: logged; others: no case

\* mutant: onclose leaves the heartbeat interval running
CloseTransition_KeepsPing(w) ==
    ScheduleReconnect([w EXCEPT !.isConnectingRef = FALSE,
                                !.wsRef = NULL,
                                !.isConnected = FALSE,
                                !.connectionStatus = "disconnected"], "onclose")

\* onclose once its two guards passed: Disconnected, heartbeat off, retry scheduled
CloseTransition(w) ==
    LET w1 == [w EXCEPT !.isConnectingRef = FALSE,
                        !.wsRef = NULL,
                        !.isConnected = FALSE,
                        !.connectionStatus = "disconnected"]
        w2 == IF w1.pingIntervalRef # NULL
              THEN [w1 EXCEPT !.timers = ClearTimer(w1.timers, w1.pingIntervalRef),
                              !.pingIntervalRef = NULL]
              ELSE w1
    IN  ScheduleReconnect(w2, "onclose")

\* mutant: onclose without the identity guard (as the hook's first version)
OnClose_NoIdentityCheck(w, s) ==
    IF ~w.shouldReconnect THEN w ELSE CloseTransition(w)

\* ws.onclose of socket s
OnClose(w, s) ==
    IF w.wsRef # s THEN w
    ELSE IF ~w.shouldReconnect THEN w
    ELSE CloseTransition(w)

\* mutant: onerror counts the failure and schedules a reconnect as well
OnError_AlsoSchedules(w, s) ==
    IF w.wsRef # s THEN w
    ELSE IF ~w.shouldReconnect THEN w
    ELSE ScheduleReconnect([w EXCEPT !.connectionStatus = "connecting"], "onclose")

\* ws.onerror of socket s
OnError(w, s) ==
    IF w.wsRef # s THEN w
    ELSE IF ~w.shouldReconnect THEN w
    ELSE [w EXCEPT !.connectionStatus = "connecting"]

\* the body of the reconnect timeout: the closure of onclose tests
\* shouldReconnect itself, the one of the catch block is connect
ReconnectCallback(w, via, throws) ==
    IF via = "onclose"
    THEN IF w.shouldReconnect THEN Connect(w, throws) ELSE w
    ELSE Connect(w, throws)

\* the body of the deferred-start timeout
ConnectDelayCallback(w, throws) ==
    IF w.shouldReconnect THEN Connect(w, throws) ELSE w

\* the body of the ping interval created by onopen of socket s
PingCallback(w, s) ==
    IF ReadyState(w, s) = "OPEN" THEN [w EXCEPT !.out.pinged = TRUE] ELSE w

\* mutant: the pending reconnect timeout is not cleared
ManualReconnect_KeepsReconnectTimer(w, throws) ==
    LET w1 == [w EXCEPT !.shouldReconnect = TRUE,
                        !.reconnectAttemptsRef = 0,
                        !.isConnectingRef = FALSE,
                        !.manualSince = TRUE]
        w2 == CloseAndForget(w1, "manual")
        w4 == ClearIfSet(w2, w2.pingIntervalRef)
    IN  Connect(w4, throws)

\* manualReconnect()
ManualReconnect(w, throws) ==
    LET w1 == [w EXCEPT !.shouldReconnect = TRUE,
                        !.reconnectAttemptsRef = 0,
                        !.isConnectingRef = FALSE,
                        !.manualSince = TRUE]
        w2 == CloseAndForget(w1, "manual")
        w3 == ClearIfSet(w2, w2.reconnectTimeoutRef)
        w4 == ClearIfSet(w3, w3.pingIntervalRef)
    IN  Connect(w4, throws)

\* the effect of the hook: start()
EffectMount(w) ==
    LET w1 == [w EXCEPT !.shouldReconnect = TRUE]
        id == FreshTimer(w1)
    IN  [w1 EXCEPT !.timers = w1.timers \cup {[id |-> id, kind |-> "connectDelay",
                                               delay |-> ConnectDelayMs, ws |-> NULL,
                                               via |-> "effect"]},
                   !.connectDelayRef = id]

\* mutant: the cleanup forgets the reconnect timer
EffectCleanup_KeepsReconnectTimer(w) ==
    LET w1 == [w EXCEPT !.shouldReconnect = FALSE, !.isConnectingRef = FALSE]
        w2 == ClearIfSet(w1, w1.connectDelayRef)
        w3 == CloseAndForget(w2, "stop")
        w5 == ClearIfSet(w3, w3.pingIntervalRef)
    IN  [w5 EXCEPT !.out.cancelled = {t.kind : t \in w.timers \ w5.timers}]

\* mutant: the cleanup closes the socket but keeps the reference to it
\* (as the hook's first version)
EffectCleanup_KeepsSocketRef(w) ==
    LET w1 == [w EXCEPT !.shouldReconnect = FALSE, !.isConnectingRef = FALSE]
        w2 == ClearIfSet(w1, w1.connectDelayRef)
        w3 == [w2 EXCEPT !.sockets = CloseSocket(w2.sockets, w2.wsRef, "stop")]
        w4 == ClearIfSet(w3, w3.reconnectTimeoutRef)
        w5 == ClearIfSet(w4, w4.pingIntervalRef)
    IN  [w5 EXCEPT !.out.cancelled = {t.kind : t \in w.timers \ w5.timers}]

\* mutant: the cleanup forgets the deferred-start timer
EffectCleanup_KeepsConnectDelay(w) ==
    LET w1 == [w EXCEPT !.shouldReconnect = FALSE, !.isConnectingRef = FALSE]
        w3 == CloseAndForget(w1, "stop")
        w4 == ClearIfSet(w3, w3.reconnectTimeoutRef)
        w5 == ClearIfSet(w4, w4.pingIntervalRef)
    IN  [w5 EXCEPT !.out.cancelled = {t.kind : t \in w.timers \ w5.timers}]

\* the cleanup of the effect: stop()
EffectCleanup(w) ==
    LET w1 == [w EXCEPT !.shouldReconnect = FALSE, !.isConnectingRef = FALSE]
        w2 == ClearIfSet(w1, w1.connectDelayRef)
        w3 == CloseAndForget(w2, "stop")
        w4 == ClearIfSet(w3, w3.reconnectTimeoutRef)
        w5 == ClearIfSet(w4, w4.pingIntervalRef)
    IN  [w5 EXCEPT !.out.cancelled = {t.kind : t \in w.timers \ w5.timers}]

\* sendMessage(message); JSON.stringify puts the value in a text frame
JSONStringify(message) == [text |-> message.type, json |-> TRUE, value |-> message]

\* mutant: the message is sent whatever the state of the socket
SendMessage_NoCheck(w, message) ==
    [w EXCEPT !.out.sent = Append(w.out.sent, JSONStringify(message))]

SendMessage(w, message) ==
    IF w.wsRef # NULL /\ ReadyState(w, w.wsRef) = "OPEN"
    THEN [w EXCEPT !.out.sent = Append(w.out.sent, JSONStringify(message))]
    ELSE w   \* console.warn: the message is dropped

(***************************************************************************)
(* The consumers of the bus: the components that listen to the window      *)
(* events published by onmessage.  useGames debounces its refresh with a   *)
(* timeout (useAvailableDates.ts, lines 35-63); PropsFinder refreshes at   *)
(* once (PropsFinder.tsx, lines 96-103).                                   *)
(***************************************************************************)
MaxBurst == 3          \* refresh calls counted per window (the count saturates)
TickMs == 50           \* granularity of the clock

CoalesceMs == 250

UseGamesConsumers == {"games1", "games2"}
PropsConsumers == {"props1"}
Consumers == UseGamesConsumers \cup PropsConsumers

\* the window event a consumer listens to
EventOf(c) == IF c \in UseGamesConsumers THEN "gamesUpdated" ELSE "propsUpdated"

SubscribeGames == Msg("subscribe", "games", NoField)

NoCout == [c |-> "none", refreshed |-> <<>>, delivered |-> <<>>, threw |-> {}]

ConsumerWorld == [listeners |-> listeners, invalidateTimer |-> invalidateTimer,
                  burst |-> burst, cout |-> cout]

Mounted(cw, c) == \E l \in cw.listeners : l.c = c

TimerPending(cw, c) == \E t \in cw.invalidateTimer : t.c = c

\* queryClient.invalidateQueries({ queryKey: [key] })
InvalidateQueries(cw, c, key) ==
    [cw EXCEPT !.cout.refreshed = Append(cw.cout.refreshed, <<c, key>>),
               !.burst[c].calls = Min(cw.burst[c].calls + 1, MaxBurst)]

\* if (invalidateTimer.current) window.clearTimeout(invalidateTimer.current)
ClearInvalidateTimer(cw, c) ==
    [cw EXCEPT !.invalidateTimer = {t \in cw.invalidateTimer : t.c # c}]

\* mutant: a notification that finds the timer pending leaves it alone
HandleGamesUpdate_KeepsPending(cw, c, detail) ==
    IF TimerPending(cw, c) THEN cw
    ELSE [cw EXCEPT !.invalidateTimer =
                        cw.invalidateTimer \cup {[c |-> c, left |-> CoalesceMs]}]

\* mutant: a new timeout is set without clearing the pending one
HandleGamesUpdate_NoClear(cw, c, detail) ==
    [cw EXCEPT !.invalidateTimer =
                   cw.invalidateTimer \cup {[c |-> c, left |-> CoalesceMs]}]

\* useGames.handleGamesUpdate: the timeout is cleared and set again
HandleGamesUpdate(cw, c, detail) ==
    LET cw1 == ClearInvalidateTimer(cw, c)
    IN  [cw1 EXCEPT !.invalidateTimer =
                        cw1.invalidateTimer \cup {[c |-> c, left |-> CoalesceMs]}]

\* the body of useGames' timeout
InvalidateCallback(cw, c) == InvalidateQueries(cw, c, "games")

\* PropsFinder.handlePropsUpdate
HandlePropsUpdate(cw, c, detail) == InvalidateQueries(cw, c, "advancedProps")

\* the listener of consumer c is called with an event carrying detail
CallListener(cw, c, detail) ==
    LET fresh == cw.burst[c].left = 0 /\ ~TimerPending(cw, c)
        cw1 == [cw EXCEPT !.burst[c] = IF fresh
                                       THEN [left |-> CoalesceMs, calls |-> 0]
                                       ELSE cw.burst[c],
                          !.cout.delivered = Append(cw.cout.delivered, <<c, detail>>)]
    IN  IF c \in UseGamesConsumers
        THEN HandleGamesUpdate(cw1, c, detail)
        ELSE HandlePropsUpdate(cw1, c, detail)

RECURSIVE CallListeners(_, _, _)
CallListeners(cw, cs, detail) ==
    IF cs = {} THEN cw
    ELSE LET c == CHOOSE x \in cs : TRUE
         IN  CallListeners(CallListener(cw, c, detail), cs \ {c}, detail)

\* window.dispatchEvent: every listener added for the event's name is called
WindowDispatch(cw, name, detail) ==
    CallListeners(cw, {l.c : l \in {x \in cw.listeners : x.name = name}}, detail)

\* the listener of consumer c is called and, if c is in throwers, throws at
\* its first statement: the exception is reported, none of its effects happen
CallListenerThrowing(cw, c, detail, throwers) ==
    IF c \in throwers
    THEN [cw EXCEPT !.cout.delivered = Append(cw.cout.delivered, <<c, detail>>),
                    !.cout.threw = cw.cout.threw \cup {c}]
    ELSE CallListener(cw, c, detail)

\* mutant: an exception thrown by a listener ends the dispatch
RECURSIVE CallListenersThrowing_Aborts(_, _, _, _)
CallListenersThrowing_Aborts(cw, cs, detail, throwers) ==
    IF cs = {} THEN cw
    ELSE LET c == CHOOSE x \in cs : TRUE
         IN  IF c \in throwers
             THEN CallListenerThrowing(cw, c, detail, throwers)
             ELSE CallListenersThrowing_Aborts(
                      CallListenerThrowing(cw, c, detail, throwers),
                      cs \ {c}, detail, throwers)

\* EventTarget.dispatchEvent: an exception thrown by a listener is reported
\* and the remaining listeners are still called
RECURSIVE CallListenersThrowing(_, _, _, _)
CallListenersThrowing(cw, cs, detail, throwers) ==
    IF cs = {} THEN cw
    ELSE LET c == CHOOSE x \in cs : TRUE
         IN  CallListenersThrowing(CallListenerThrowing(cw, c, detail, throwers),
                                   cs \ {c}, detail, throwers)

WindowDispatchThrowing(cw, name, detail, throwers) ==
    CallListenersThrowing(cw, {l.c : l \in {x \in cw.listeners : x.name = name}},
                          detail, throwers)

\* mutant: the events are put aside instead of being delivered in the task
DeliverAll_Deferred(cw, dispatched) == cw

\* the events a task of the hook dispatched, in order
RECURSIVE DeliverAll(_, _)
DeliverAll(cw, dispatched) ==
    IF dispatched = <<>> THEN cw
    ELSE DeliverAll(WindowDispatch(cw, Head(dispatched)[1], Head(dispatched)[2]),
                    Tail(dispatched))

\* the effect of a consumer: window.addEventListener(name, handler)
ConsumerEffect(cw, c) ==
    [cw EXCEPT !.listeners = cw.listeners \cup {[c |-> c, name |-> EventOf(c)]}]

\* mutant: the cleanup removes every listener of the event's name
ConsumerCleanup_RemovesTopic(cw, c) ==
    ClearInvalidateTimer(
        [cw EXCEPT !.listeners = {l \in cw.listeners : l.name # EventOf(c)}], c)

\* the cleanup of a consumer's effect: removeEventListener, clearTimeout
ConsumerCleanup(cw, c) ==
    LET cw1 == [cw EXCEPT !.listeners = cw.listeners \ {[c |-> c, name |-> EventOf(c)]}]
    IN  IF c \in UseGamesConsumers THEN ClearInvalidateTimer(cw1, c) ELSE cw1

(***************************************************************************)
(* The state machine: one action per task of the event loop.               *)
(***************************************************************************)
Init ==
    /\ isConnected = FALSE
    /\ lastMessage = NoMessage
    /\ connectionStatus = "disconnected"
    /\ wsRef = NULL
    /\ reconnectTimeoutRef = NULL
    /\ connectDelayRef = NULL
    /\ pingIntervalRef = NULL
    /\ shouldReconnect = TRUE
    /\ reconnectAttemptsRef = 0
    /\ isConnectingRef = FALSE
    /\ sockets = <<>>
    /\ timers = {}
    /\ mounted = FALSE
    /\ started = FALSE
    /\ prevDelay = 0
    /\ manualSince = FALSE
    /\ out = NoOut
    /\ listeners = {}
    /\ invalidateTimer = {}
    /\ burst = [c \in Consumers |-> [left |-> 0, calls |-> 0]]
    /\ cout = NoCout

\* the world at the start of a task named op about socket s
Begin(op, s) ==
    [World EXCEPT !.out = [NoOut EXCEPT
        !.op = op,
        !.ws = s,
        !.late = IF s \in DOMAIN sockets THEN sockets[s].detachedBy ELSE "none",
        !.wasConnected = (s # NULL /\ wsRef = s /\ ReadyState(World, s) = "OPEN"),
        !.busyBefore = Active(World),
        !.attemptsBefore = reconnectAttemptsRef]]

Apply(w) ==
    /\ isConnected' = w.isConnected
    /\ lastMessage' = w.lastMessage
    /\ connectionStatus' = w.connectionStatus
    /\ wsRef' = w.wsRef
    /\ reconnectTimeoutRef' = w.reconnectTimeoutRef
    /\ connectDelayRef' = w.connectDelayRef
    /\ pingIntervalRef' = w.pingIntervalRef
    /\ shouldReconnect' = w.shouldReconnect
    /\ reconnectAttemptsRef' = w.reconnectAttemptsRef
    /\ isConnectingRef' = w.isConnectingRef
    /\ sockets' = w.sockets
    /\ timers' = w.timers
    /\ prevDelay' = w.prevDelay
    /\ manualSince' = w.manualSince
    /\ out' = w.out

\* the consumers at the start of a task
BeginConsumers == [ConsumerWorld EXCEPT !.cout = NoCout]

ApplyConsumers(cw) ==
    /\ listeners' = cw.listeners
    /\ invalidateTimer' = cw.invalidateTimer
    /\ burst' = cw.burst
    /\ cout' = cw.cout

\* mutant: the registrations live in the manager and go with its connection
ConsumersIdle_Forgets == ApplyConsumers([BeginConsumers EXCEPT !.listeners = {}])

\* a task in which no consumer code runs
ConsumersIdle == ApplyConsumers(BeginConsumers)

\* the readyState change that precedes the dispatch of a socket event
WithReadyState(w, s, rs) == [w EXCEPT !.sockets[s].readyState = rs]

\* a closed socket delivers no further event
Reap(w, s) == [w EXCEPT !.sockets = [x \in DOMAIN w.sockets \ {s} |-> w.sockets[x]]]

\* whether new WebSocket(url) may throw in this task (failures are bounded)
Throws == IF reconnectAttemptsRef < MaxAttempts THEN BOOLEAN ELSE {FALSE}

\* the environment closes the manager's running socket only within the bound
FailureAllowed(s) ==
    (wsRef = s /\ shouldReconnect) => reconnectAttemptsRef < MaxAttempts

Room == Cardinality(DOMAIN sockets) < MaxSockets

Mount ==
    /\ ~mounted
    /\ Room
    /\ Apply(EffectMount(Begin("mount", NULL)))
    /\ mounted' = TRUE
    /\ started' = TRUE
    /\ ConsumersIdle

Unmount ==
    /\ mounted
    /\ Apply(EffectCleanup(Begin("unmount", NULL)))
    /\ mounted' = FALSE
    /\ UNCHANGED started
    /\ ConsumersIdle

Reconnect ==
    /\ Room
    /\ \E throws \in BOOLEAN :
           Apply(ManualReconnect(Begin("manualReconnect", NULL), throws))
    /\ started' = TRUE
    /\ ConsumersIdle
    /\ UNCHANGED mounted

ConnectDelayFire ==
    \E t \in timers :
        /\ t.kind = "connectDelay"
        /\ \E throws \in Throws :
               Apply(ConnectDelayCallback(
                   [Begin("connectDelayFire", NULL) EXCEPT !.timers = timers \ {t}],
                   throws))
        /\ UNCHANGED <<mounted, started>>
        /\ ConsumersIdle

ReconnectFire ==
    \E t \in timers :
        /\ t.kind = "reconnect"
        /\ \E throws \in Throws :
               Apply(ReconnectCallback(
                   [Begin("reconnectFire", NULL) EXCEPT !.timers = timers \ {t}],
                   t.via, throws))
        /\ UNCHANGED <<mounted, started>>
        /\ ConsumersIdle

PingFire ==
    \E t \in timers :
        /\ t.kind = "ping"
        /\ Apply(PingCallback(Begin("pingFire", t.ws), t.ws))
        /\ UNCHANGED <<mounted, started>>
        /\ ConsumersIdle

SocketOpen ==
    \E s \in DOMAIN sockets :
        /\ sockets[s].readyState = "CONNECTING"
        /\ Apply(OnOpen(WithReadyState(Begin("open", s), s, "OPEN"), s))
        /\ UNCHANGED <<mounted, started>>
        /\ ConsumersIdle

\* a message event: onmessage, then the listeners of what it dispatched;
\* observed is what the step's record keeps of the frame
MessageTask(s, raw, observed) ==
    LET w == OnMessage([Begin("message", s) EXCEPT !.out.frame = observed], s, raw)
    IN  /\ Apply(w)
        /\ ApplyConsumers(DeliverAll(BeginConsumers, w.out.dispatched))
        /\ UNCHANGED <<mounted, started>>

SocketMessage ==
    \E s \in DOMAIN sockets, raw \in RawFrames :
        /\ sockets[s].readyState \in {"OPEN", "CLOSING"}
        /\ MessageTask(s, raw, NoFrame)

\* a close event alone: the closing handshake of an open socket completed
SocketClose ==
    \E s \in DOMAIN sockets :
        /\ sockets[s].readyState \in {"OPEN", "CLOSING"}
        /\ FailureAllowed(s)
        /\ Apply(Reap(OnClose(WithReadyState(Begin("close", s), s, "CLOSED"), s), s))
        /\ UNCHANGED <<mounted, started>>
        /\ ConsumersIdle

\* the connection failed: an error event, then a close event, in one task
SocketFail ==
    \E s \in DOMAIN sockets :
        /\ FailureAllowed(s)
        /\ Apply(Reap(OnClose(OnError(
               WithReadyState(Begin("fail", s), s, "CLOSED"), s), s), s))
        /\ UNCHANGED <<mounted, started>>
        /\ ConsumersIdle

Next ==
    \/ Mount
    \/ Unmount
    \/ Reconnect
    \/ ConnectDelayFire
    \/ ReconnectFire
    \/ PingFire
    \/ SocketOpen
    \/ SocketMessage
    \/ SocketClose
    \/ SocketFail

Spec == Init /\ [][Next]_vars

(***************************************************************************)
(* The application: the provider stays mounted, consumers come and go,     *)
(* and every kind of frame arrives on the socket.                          *)
(***************************************************************************)
Payloads == {"d1", "d2"}

AppFrames ==
    { [text |-> "not json", json |-> FALSE, value |-> Msg(NoField, NoField, NoField)],
      [text |-> "null", json |-> TRUE, value |-> NoMessage],
      [text |-> "mystery", json |-> TRUE, value |-> Msg("mystery", "games", "d1")],
      [text |-> "games d1", json |-> TRUE, value |-> Msg("data_update", "games", "d1")],
      [text |-> "games d2", json |-> TRUE, value |-> Msg("data_update", "games", "d2")],
      [text |-> "players", json |-> TRUE, value |-> Msg("data_update", "players", "d1")],
      [text |-> "props", json |-> TRUE,
       value |-> Msg("data_update", "player_props", "d2")],
      [text |-> "teams", json |-> TRUE, value |-> Msg("data_update", "teams", "d1")] }

\* the envelopes that carry no data update
ControlFrames ==
    { [text |-> "connection", json |-> TRUE, value |-> Msg("connection", NoField, NoField)],
      [text |-> "ping", json |-> TRUE, value |-> Msg("ping", NoField, NoField)],
      [text |-> "pong", json |-> TRUE, value |-> Msg("pong", NoField, NoField)],
      [text |-> "error", json |-> TRUE, value |-> Msg("error", "games", "d1")] }

FrameArrives ==
    \E s \in DOMAIN sockets, raw \in AppFrames \cup ControlFrames :
        /\ sockets[s].readyState = "OPEN"
        /\ MessageTask(s, raw, raw)

\* a data update arrives and the listener of consumer c throws
FrameArrivesHandlerThrows ==
    \E s \in DOMAIN sockets, raw \in AppFrames, c \in Consumers :
        LET w == OnMessage([Begin("message", s) EXCEPT !.out.frame = raw], s, raw)
        IN  /\ sockets[s].readyState = "OPEN"
            /\ Len(w.out.dispatched) = 1
            /\ [c |-> c, name |-> w.out.dispatched[1][1]] \in listeners
            /\ Apply(w)
            /\ ApplyConsumers(WindowDispatchThrowing(
                   BeginConsumers, w.out.dispatched[1][1], w.out.dispatched[1][2], {c}))
            /\ UNCHANGED <<mounted, started>>

\* a component using useGames or PropsFinder mounts: its effect runs
ConsumerMount ==
    \E c \in Consumers :
        /\ ~Mounted(ConsumerWorld, c)
        /\ ApplyConsumers(ConsumerEffect([BeginConsumers EXCEPT !.cout.c = c], c))
        /\ Apply(IF c \in UseGamesConsumers
                 THEN SendMessage(Begin("consumerMount", NULL), SubscribeGames)
                 ELSE Begin("consumerMount", NULL))
        /\ UNCHANGED <<mounted, started>>

ConsumerUnmount ==
    \E c \in Consumers :
        /\ Mounted(ConsumerWorld, c)
        /\ ApplyConsumers(ConsumerCleanup(
               [BeginConsumers EXCEPT !.cout.c = c,
                                      !.burst[c] = [left |-> 0, calls |-> 0]], c))
        /\ Apply(Begin("consumerUnmount", NULL))
        /\ UNCHANGED <<mounted, started>>

AppNext ==
    \/ Mount
    \/ ConnectDelayFire
    \/ ReconnectFire
    \/ SocketOpen
    \/ SocketClose
    \/ FrameArrives
    \/ FrameArrivesHandlerThrows
    \/ ConsumerMount
    \/ ConsumerUnmount

AppSpec == Init /\ [][AppNext]_vars

(***************************************************************************)
(* The consumers against the clock: events are dispatched on the window,   *)
(* time passes, the invalidate timeouts fire when they are due.            *)
(***************************************************************************)
EventNames == {"gamesUpdated", "playersUpdated", "propsUpdated"}

Elapsed(left, ms) == IF left > ms THEN left - ms ELSE 0

\* ms milliseconds pass
Elapse(cw, ms) ==
    [cw EXCEPT !.invalidateTimer = {[c |-> t.c, left |-> Elapsed(t.left, ms)] :
                                        t \in cw.invalidateTimer},
               !.burst = [c \in Consumers |->
                             [cw.burst[c] EXCEPT !.left = Elapsed(cw.burst[c].left, ms)]]]

Tick ==
    /\ invalidateTimer # {} \/ \E c \in Consumers : burst[c].left > 0
    /\ ApplyConsumers(Elapse(BeginConsumers, TickMs))
    /\ Apply(Begin("tick", NULL))
    /\ UNCHANGED <<mounted, started>>

InvalidateFire ==
    \E t \in invalidateTimer :
        /\ t.left = 0
        /\ ApplyConsumers(InvalidateCallback(
               [BeginConsumers EXCEPT !.invalidateTimer = invalidateTimer \ {t},
                                      !.cout.c = t.c], t.c))
        /\ Apply(Begin("invalidateFire", NULL))
        /\ UNCHANGED <<mounted, started>>

\* onmessage dispatches an event on the window
BusNotify ==
    \E name \in EventNames, detail \in Payloads :
        LET w == DispatchEvent(Begin("notify", NULL), name, detail)
        IN  /\ Apply(w)
            /\ ApplyConsumers(DeliverAll(BeginConsumers, w.out.dispatched))
            /\ UNCHANGED <<mounted, started>>

CoalesceNext ==
    \/ ConsumerMount
    \/ ConsumerUnmount
    \/ BusNotify
    \/ Tick
    \/ InvalidateFire

CoalesceSpec == Init /\ [][CoalesceNext]_vars

(***************************************************************************)
(* The whole lifecycle of the hook with a consumer of the bus: the provider*)
(* mounts and unmounts, reconnect is called, sockets open, close and fail, *)
(* while a component using useGames comes and goes and updates arrive.     *)
(***************************************************************************)
LifecycleConsumers == {"games1"}

LifecycleFrames == {f \in AppFrames : f.text = "games d1"}

UpdateArrives ==
    \E s \in DOMAIN sockets, raw \in LifecycleFrames :
        /\ sockets[s].readyState = "OPEN"
        /\ MessageTask(s, raw, raw)

BusRegister == ConsumerMount /\ cout'.c \in LifecycleConsumers

BusUnregister == ConsumerUnmount /\ cout'.c \in LifecycleConsumers

LifecycleNext ==
    \/ Mount
    \/ Unmount
    \/ Reconnect
    \/ ConnectDelayFire
    \/ ReconnectFire
    \/ SocketOpen
    \/ SocketClose
    \/ SocketFail
    \/ UpdateArrives
    \/ BusRegister
    \/ BusUnregister

LifecycleSpec == Init /\ [][LifecycleNext]_vars

(***************************************************************************)
(* The manager stopping and starting while the consumers run against the   *)
(* clock: the hook's effect is cleaned up and runs again, updates arrive on*)
(* the open socket, time passes and the invalidate timeouts fire.          *)
(***************************************************************************)
TeardownNext ==
    \/ Mount
    \/ Unmount
    \/ ConnectDelayFire
    \/ ReconnectFire
    \/ SocketOpen
    \/ SocketClose
    \/ UpdateArrives
    \/ BusRegister
    \/ BusUnregister
    \/ Tick
    \/ InvalidateFire

TeardownSpec == Init /\ [][TeardownNext]_vars

TypeOK ==
    /\ isConnected \in BOOLEAN
    /\ connectionStatus \in {"connecting", "connected", "disconnected", "error"}
    /\ Cardinality(DOMAIN sockets) <= MaxSockets
    /\ reconnectAttemptsRef \in 0..MaxAttempts
    /\ \A s \in DOMAIN sockets : sockets[s].readyState \in {"CONNECTING", "OPEN", "CLOSING"}
    /\ \A t1, t2 \in timers : t1.id = t2.id => t1 = t2

(***************************************************************************)
(* Properties.                                                             *)
(***************************************************************************)
SocketOps == {"open", "message", "close", "fail"}

ActiveSockets ==
    {s \in DOMAIN sockets : sockets[s].readyState \in {"CONNECTING", "OPEN"}}

ReconnectPending == \E t \in timers : t.kind = "reconnect"

\* C1: in every reachable state at most one socket created by the manager is
\* connecting or open, whatever the interleaving of mount, unmount, manual
\* reconnect, timer fires and socket events.
C1_AtMostOneActiveSocket == Cardinality(ActiveSockets) <= 1

\* a manual reconnect has just superseded a socket that is still closing
C1_Witness ==
    /\ out.op = "manualReconnect"
    /\ Cardinality(DOMAIN sockets) >= 2
    /\ Cardinality(ActiveSockets) = 1

\* C2: connect() invoked (by the deferred-start or the reconnect timer) while
\* the manager holds a connecting or open socket returns at its guard: no
\* socket is created and the status, the attempt counter, the refs and the
\* other timers stay as they were; only the timer that fired is gone.
C2_ConnectWhileActiveIsNoOp ==
    [][ ( /\ out'.op \in {"connectDelayFire", "reconnectFire"}
          /\ shouldReconnect
          /\ wsRef # NULL
          /\ ReadyState(World, wsRef) \in {"CONNECTING", "OPEN"} )
        => ( /\ out'.connect = "busy"
             /\ UNCHANGED <<sockets, wsRef, connectionStatus, isConnected,
                            reconnectAttemptsRef, isConnectingRef,
                            reconnectTimeoutRef, connectDelayRef, pingIntervalRef>>
             /\ timers' \subseteq timers
             /\ Cardinality(timers \ timers') = 1 ) ]_vars

\* the deferred start fired after a manual reconnect had opened a socket
C2_Witness ==
    /\ out.op = "connectDelayFire"
    /\ out.busyBefore
    /\ out.connect = "busy"
    /\ Cardinality(ActiveSockets) = 1

\* C3: while stopped (after the cleanup, until the effect or a manual
\* reconnect starts the manager again) no timer of the manager is pending and
\* no task creates a socket, attempts a connect, schedules a reconnect or
\* sends a ping.
C3_StopCancelsAllTimers ==
    ~shouldReconnect =>
        /\ timers = {}
        /\ out.connect \notin {"created", "threw"}
        /\ out.scheduled = 0
        /\ ~out.pinged
        /\ out.op \notin {"connectDelayFire", "reconnectFire", "pingFire"}

\* the cleanup ran while a reconnect timer was pending
C3_Witness ==
    /\ ~shouldReconnect
    /\ out.op = "unmount"
    /\ "reconnect" \in out.cancelled

\* C4: an event of a socket that the cleanup closed changes nothing the
\* consumers see and schedules nothing, also after the manager was started
\* again.
C4_LateEventsAfterStopInert ==
    [][ (out'.op \in SocketOps /\ out'.late = "stop")
        => ( /\ UNCHANGED <<connectionStatus, isConnected, lastMessage,
                            reconnectAttemptsRef, timers, reconnectTimeoutRef>>
             /\ out'.dispatched = <<>>
             /\ out'.scheduled = 0 ) ]_vars

\* the close event of the stopped socket arrives after a restart
C4_Witness ==
    /\ out.op \in {"close", "fail"}
    /\ out.late = "stop"
    /\ shouldReconnect
    /\ mounted

\* C5: a callback of a socket that is not the manager's current socket
\* changes none of status, isConnected, the in-flight flag, the attempt
\* counter, the socket reference, the timers and their refs.
C5_StaleCallbacksInert ==
    [][ (out'.op \in SocketOps /\ out'.ws # wsRef)
        => UNCHANGED <<connectionStatus, isConnected, isConnectingRef,
                       reconnectAttemptsRef, wsRef, pingIntervalRef,
                       reconnectTimeoutRef, timers, lastMessage>> ]_vars

\* the close event of a superseded socket arrives while its successor is active
C5_Witness ==
    /\ out.op \in {"close", "fail"}
    /\ out.late = "manual"
    /\ wsRef # NULL
    /\ out.ws # wsRef
    /\ Cardinality(ActiveSockets) = 1

\* min(cap, base * 2^n), written out independently of the model of the code
ExpectedDelay(n) ==
    IF BaseDelayMs * (2 ^ n) <= MaxDelayMs THEN BaseDelayMs * (2 ^ n) ELSE MaxDelayMs

\* C6 as stated: every scheduled reconnect delay is min(cap, base * 2^n) for
\* the attempt counter n, never above the cap, and never below the delay
\* scheduled before it unless a successful open came in between.
C6_Original ==
    [][ out'.scheduled # 0
        => ( /\ out'.scheduled = ExpectedDelay(reconnectAttemptsRef')
             /\ out'.scheduled <= MaxDelayMs
             /\ out'.scheduled >= prevDelay ) ]_vars

\* C6 (amended): every scheduled reconnect delay is min(cap, base * 2^n)
\* where n >= 1 is the attempt counter after the failure was counted; it never
\* exceeds the cap; and it is not below the delay scheduled before it unless a
\* successful open or a manual reconnect came in between.
C6_BackoffDelay ==
    [][ out'.scheduled # 0
        => ( /\ reconnectAttemptsRef' >= 1
             /\ out'.scheduled = ExpectedDelay(reconnectAttemptsRef')
             /\ out'.scheduled <= MaxDelayMs
             /\ (~manualSince /\ out'.op # "manualReconnect")
                    => out'.scheduled >= prevDelay ) ]_vars

\* the fifth consecutive failure is scheduled at the cap, after a 16 s delay
C6_Witness ==
    /\ out.scheduled = MaxDelayMs
    /\ reconnectAttemptsRef = 5
    /\ out.attemptsBefore = 4

Connected == wsRef # NULL /\ ReadyState(World, wsRef) = "OPEN"

\* a task in which the socket that had reached Connected closed while running
ClosedWhileConnected ==
    /\ out.op \in {"close", "fail"}
    /\ out.wasConnected
    /\ shouldReconnect

\* C7 as stated: while Connected the attempt counter is 0, and the failure
\* that follows schedules its reconnect after the base delay.
C7_Original ==
    /\ Connected => reconnectAttemptsRef = 0
    /\ ClosedWhileConnected => out.scheduled = BaseDelayMs

\* C7 (amended): while Connected the attempt counter is 0, and the failure
\* that follows counts as attempt 1 and schedules its reconnect after twice
\* the base delay.
C7_CounterResetOnOpen ==
    /\ Connected => reconnectAttemptsRef = 0
    /\ ClosedWhileConnected =>
           (reconnectAttemptsRef = 1 /\ out.scheduled = 2 * BaseDelayMs)

\* an open succeeded after failures had been counted
C7_Witness ==
    /\ out.op = "open"
    /\ out.attemptsBefore >= 2
    /\ Connected
    /\ connectionStatus = "connected"

\* C8: when the socket that had reached Connected closes while the manager
\* runs, the status shown is 'connecting' and a reconnect timer is pending.
C8_CloseShowsConnecting ==
    ClosedWhileConnected => (connectionStatus = "connecting" /\ ReconnectPending)

\* C9: the reconnect timer scheduled by the close of a socket that had reached
\* Connected has delay base * 2^1 = 2000 ms.
C9_FirstRetryDelay ==
    ClosedWhileConnected =>
        /\ out.scheduled = 2000
        /\ \E t \in timers : /\ t.id = reconnectTimeoutRef
                             /\ t.kind = "reconnect"
                             /\ t.delay = 2000

\* a connected socket was closed by the server
C9_Witness ==
    /\ ClosedWhileConnected
    /\ out.op = "close"
    /\ ReconnectPending

Running == started /\ shouldReconnect

Attempted == out.connect \in {"created", "threw"}

\* C10: while running the manager always holds an active socket, a reconnect
\* timer or the deferred-start timer; every failure it handles schedules a
\* reconnect timer however many failures were counted before; and a reconnect
\* timer that fires while no socket is active makes a connect attempt.
C10_RetriesForever ==
    /\ [](Running => (Active(World) \/ \E t \in timers :
                                          t.kind \in {"reconnect", "connectDelay"}))
    /\ [][ ( /\ out'.op \in {"close", "fail"} \/ out'.connect = "threw"
             /\ out'.late = "none"
             /\ shouldReconnect' )
           => (out'.scheduled # 0 /\ ReconnectPending') ]_vars
    /\ [][ (out'.op = "reconnectFire" /\ shouldReconnect /\ ~Active(World))
           => Attempted' ]_vars

\* a new socket is created by the reconnect timer after four failures in a row
C10_Witness ==
    /\ out.op = "reconnectFire"
    /\ out.connect = "created"
    /\ reconnectAttemptsRef >= 4

hookVars == <<isConnected, lastMessage, connectionStatus, wsRef, reconnectTimeoutRef,
              connectDelayRef, pingIntervalRef, shouldReconnect, reconnectAttemptsRef,
              isConnectingRef, sockets, timers>>

\* C11: sendMessage puts the message on the wire exactly when the held socket
\* is open; otherwise the message is dropped; in both cases no state of the
\* manager changes, and no later task sends a message that was dropped.
C11_SendOnlyWhenConnected ==
    /\ [][ (out'.op = "consumerMount" /\ cout'.c \in UseGamesConsumers)
           => ( /\ out'.sent =
                     IF Connected
                     THEN << [text |-> "subscribe", json |-> TRUE,
                              value |-> [type |-> "subscribe", data_type |-> "games",
                                         data |-> NoField]] >>
                     ELSE <<>>
                /\ UNCHANGED hookVars ) ]_vars
    /\ [][ out'.op # "consumerMount" => out'.sent = <<>> ]_vars

\* useGames asked for its subscription while the socket was still connecting
C11_Witness ==
    /\ out.op = "consumerMount"
    /\ cout.c \in UseGamesConsumers
    /\ out.sent = <<>>
    /\ wsRef # NULL
    /\ ReadyState(World, wsRef) = "CONNECTING"

\* C12: when the socket opens while a useGames consumer is mounted, on the
\* first connection as on every reconnection, the frame {type: "subscribe",
\* data_type: "games"} is sent on it.
C12_SubscribeSentOnConnect ==
    [][ ( /\ out'.op = "open"
          /\ Connected'
          /\ \E c \in UseGamesConsumers : Mounted(ConsumerWorld, c) )
        => \E i \in DOMAIN out'.sent : out'.sent[i].value = SubscribeGames ]_vars

\* the consumers listening to the event a notify task dispatched
Notified(name) == {l.c : l \in {x \in listeners : x.name = name}}

\* C13: for each consumer, the notifications that arrive within the window
\* CoalesceMs opened by the first of them cause at most one refresh call; every
\* notification leaves a refresh called or pending for each consumer of its
\* key; and it changes neither the pending timer nor the window of a consumer
\* of another key.
C13_OneRefreshPerBurst ==
    /\ [](\A c \in Consumers : burst[c].calls <= 1)
    /\ [][ out'.op = "notify"
           => \A c \in Consumers :
                  IF c \in Notified(out'.dispatched[1][1])
                  THEN \/ \E i \in DOMAIN cout'.refreshed : cout'.refreshed[i][1] = c
                       \/ TimerPending(ConsumerWorld, c)'
                  ELSE /\ burst'[c] = burst[c]
                       /\ {x \in invalidateTimer' : x.c = c}
                              = {x \in invalidateTimer : x.c = c} ]_vars

TimersOf(c) == {x \in invalidateTimer : x.c = c}

\* C14: a notification that reaches a consumer whose refresh is pending
\* leaves the pending timer as it is, so that a pending refresh is never due
\* later than CoalesceMs after the first notification of its burst.
C14_PendingRefreshNotPostponed ==
    /\ [][ out'.op = "notify"
           => \A c \in Notified(out'.dispatched[1][1]) :
                  TimerPending(ConsumerWorld, c) => TimersOf(c)' = TimersOf(c) ]_vars
    /\ [](\A x \in invalidateTimer : x.left <= burst[x.c].left)

\* the number of times the listener of consumer c was called in the last task
Deliveries(c) == Cardinality({i \in DOMAIN cout.delivered : cout.delivered[i][1] = c})

\* the topic (data_type) whose events consumer c listens to
TopicOf(c) == IF c \in UseGamesConsumers THEN "games" ELSE "player_props"

\* a data_update frame was handled by onmessage of the held socket while running
DataUpdateTask ==
    /\ out'.op = "message"
    /\ out'.ws = wsRef
    /\ shouldReconnect
    /\ out'.frame.json
    /\ out'.frame.value.type = "data_update"

\* C15: when a data_update frame with data_type T is handled on the held
\* socket while running, each consumer registered for T is called exactly once
\* with the frame's data, and no consumer of another topic is called.
C15_DataUpdateReachesItsTopic ==
    [][ DataUpdateTask
        => \A c \in Consumers :
               IF Mounted(ConsumerWorld, c) /\ TopicOf(c) = out'.frame.value.data_type
               THEN /\ Deliveries(c)' = 1
                    /\ \E i \in DOMAIN cout'.delivered :
                           cout'.delivered[i] = <<c, out'.frame.value.data>>
               ELSE Deliveries(c)' = 0 ]_vars

\* a games update with payload d2 reached both useGames consumers and not PropsFinder
C15_Witness ==
    /\ out.op = "message"
    /\ out.frame.value = Msg("data_update", "games", "d2")
    /\ \A c \in Consumers : Mounted(ConsumerWorld, c)
    /\ Deliveries("games1") = 1
    /\ Deliveries("games2") = 1
    /\ Deliveries("props1") = 0
    /\ out.dispatched = << <<"gamesUpdated", "d2">> >>

\* the closed set of envelope types
EnvelopeTypes == {"data_update", "connection", "ping", "pong", "error"}

\* a frame that does not parse, is not an object, or has a type outside the set
Malformed(frame) ==
    \/ ~frame.json
    \/ frame.value = NoMessage
    \/ frame.value.type \notin EnvelopeTypes

\* C16: a frame that fails to parse or whose type is not in the closed set
\* changes none of status, socket, timers and attempt counter, publishes no
\* event and calls no consumer; the socket stays open and held, so the frames
\* that follow are still handled.
C16_MalformedFrameDiscarded ==
    [][ (out'.op = "message" /\ Malformed(out'.frame))
        => ( /\ UNCHANGED <<connectionStatus, isConnected, wsRef, sockets, timers,
                            pingIntervalRef, reconnectTimeoutRef, connectDelayRef,
                            reconnectAttemptsRef, isConnectingRef, shouldReconnect>>
             /\ out'.dispatched = <<>>
             /\ cout'.delivered = <<>>
             /\ cout'.refreshed = <<>>
             /\ Connected => Connected' ) ]_vars

\* a frame of unknown type arrived on the open socket while consumers listen
C16_Witness ==
    /\ out.op = "message"
    /\ out.frame.text = "mystery"
    /\ lastMessage = Msg("mystery", "games", "d1")
    /\ Connected
    /\ connectionStatus = "connected"
    /\ \E c \in UseGamesConsumers : Mounted(ConsumerWorld, c)

\* C17: from the cleanup until the manager is started again, the status
\* reported to consumers is neither 'connected' nor 'connecting' and
\* isConnected is false.
C17_StoppedAfterStop ==
    ~shouldReconnect => (connectionStatus \notin {"connected", "connecting"}
                         /\ ~isConnected)

\* C18: several listeners may be registered for one event; a published
\* event calls each listener registered for its name exactly once; and a
\* consumer that mounts or unmounts adds or removes its own listener only.
C18_HandlersIndependent ==
    /\ [][ (out'.op = "message" /\ out'.dispatched # <<>>)
           => \A c \in Consumers :
                  Deliveries(c)' =
                      IF \E l \in listeners :
                             l.c = c /\ l.name = out'.dispatched[1][1]
                      THEN 1 ELSE 0 ]_vars
    /\ [][ out'.op = "consumerUnmount"
           => /\ \A l \in listeners : l.c # cout'.c => l \in listeners'
              /\ listeners' \subseteq listeners
              /\ \A l \in listeners' : l.c # cout'.c ]_vars
    /\ [][ out'.op = "consumerMount"
           => /\ listeners \subseteq listeners'
              /\ \A l \in listeners' \ listeners : l.c = cout'.c ]_vars

\* one of two useGames consumers unmounted; the other one still listens
C18_Witness ==
    /\ out.op = "consumerUnmount"
    /\ cout.c = "games1"
    /\ [c |-> "games2", name |-> "gamesUpdated"] \in listeners
    /\ \A l \in listeners : l.c # "games1"

PingPending == \E t \in timers : t.kind = "ping"

\* C19: a ping is sent only on the held, open socket while the status is
\* 'connected' and the manager runs; and the task in which the manager leaves
\* Connected (close, stop, manual reconnect) leaves no heartbeat timer pending.
C19_HeartbeatOnlyWhileConnected ==
    /\ [](out.pinged => ( /\ connectionStatus = "connected"
                          /\ isConnected
                          /\ shouldReconnect
                          /\ out.ws = wsRef
                          /\ Connected ))
    /\ [][ (Connected /\ ~Connected') => ~PingPending' ]_vars
    /\ [](PingPending => Connected)

\* a ping went out on the held socket
C19_Witness ==
    /\ out.op = "pingFire"
    /\ out.pinged
    /\ out.ws = wsRef
    /\ connectionStatus = "connected"

ConnectDelayTimers == {t \in timers : t.kind = "connectDelay"}

\* C20: the effect creates no socket and leaves the status alone; a cleanup
\* that runs before the deferred start has fired cancels it, so that no socket
\* is created for that start and the status is not changed by it; at most one
\* deferred start is pending at any time, and when it fires it creates at most
\* one socket and leaves none pending: mount, unmount, mount within the delay
\* creates one socket.
C20_DeferredStartCancelled ==
    /\ [](Cardinality(ConnectDelayTimers) <= 1
          /\ \A t \in ConnectDelayTimers : t.id = connectDelayRef)
    /\ [][ out'.op = "mount"
           => UNCHANGED <<connectionStatus, isConnected, sockets, wsRef>> ]_vars
    /\ [][ out'.op = "unmount"
           => ( /\ ConnectDelayTimers' = {}
                /\ connectionStatus' = connectionStatus
                /\ DOMAIN sockets' \subseteq DOMAIN sockets ) ]_vars
    /\ [][ out'.op = "connectDelayFire"
           => ( /\ ConnectDelayTimers' = {}
                /\ Cardinality(DOMAIN sockets' \ DOMAIN sockets) <= 1 ) ]_vars

\* mount, unmount, mount, then the surviving deferred start created the only socket
C20_Witness ==
    /\ out.op = "connectDelayFire"
    /\ out.connect = "created"
    /\ connectDelayRef = 2
    /\ Cardinality(DOMAIN sockets) = 1
    /\ reconnectAttemptsRef = 0
    /\ timers = {}

\* C21: the status is never 'error'; and after the task of a socket error
\* event on the held socket while the manager runs, the status is 'connecting'.
C21_ErrorsAreTransient ==
    /\ [](connectionStatus \in {"disconnected", "connecting", "connected"})
    /\ [][ (out'.op = "fail" /\ out'.ws = wsRef /\ shouldReconnect)
           => connectionStatus' = "connecting" ]_vars

\* C22: an envelope of type connection, ping, pong or error handled by
\* onmessage closes no socket, changes neither status nor attempt counter,
\* starts and cancels no timer, and publishes no event.
C22_ControlFramesChangeNothing ==
    [][ ( /\ out'.op = "message"
          /\ out'.frame.json
          /\ out'.frame.value.type \in {"connection", "ping", "pong", "error"} )
        => ( /\ UNCHANGED <<connectionStatus, isConnected, wsRef, sockets, timers,
                            pingIntervalRef, reconnectTimeoutRef, connectDelayRef,
                            reconnectAttemptsRef, isConnectingRef, shouldReconnect>>
             /\ out'.dispatched = <<>>
             /\ out'.sent = <<>>
             /\ cout'.delivered = <<>>
             /\ cout'.refreshed = <<>> ) ]_vars

\* an error envelope naming the games topic arrived while useGames listens
C22_Witness ==
    /\ out.op = "message"
    /\ out.frame.value.type = "error"
    /\ lastMessage = Msg("error", "games", "d1")
    /\ Connected
    /\ connectionStatus = "connected"
    /\ \E c \in UseGamesConsumers : Mounted(ConsumerWorld, c)

\* the effect of the handler of consumer c shows in the state
HandlerRan(c) ==
    IF c \in UseGamesConsumers
    THEN [c |-> c, left |-> CoalesceMs] \in invalidateTimer
    ELSE \E i \in DOMAIN cout.refreshed : cout.refreshed[i][1] = c

\* C23: when a listener throws while an event is delivered, every listener
\* registered for the event is still called once, those that do not throw run
\* to their end, no registration is lost, and the connection is unchanged and
\* still open, so that the frames that follow are handled.
C23_ThrowingHandlerIsolated ==
    [][ (out'.op = "message" /\ cout'.threw # {})
        => ( /\ \A c \in Notified(out'.dispatched[1][1]) :
                    /\ Deliveries(c)' = 1
                    /\ c \notin cout'.threw => HandlerRan(c)'
             /\ listeners' = listeners
             /\ UNCHANGED <<connectionStatus, isConnected, wsRef, sockets, timers,
                            reconnectAttemptsRef, shouldReconnect>>
             /\ Connected' ) ]_vars

\* the listener of games1 threw and the one of games2 still set its timer
C23_Witness ==
    /\ out.op = "message"
    /\ cout.threw = {"games1"}
    /\ Deliveries("games2") = 1
    /\ HandlerRan("games2")
    /\ ~HandlerRan("games1")

\* C24: frames are handled one per task, in the order of their arrival, and
\* delivery is synchronous: a listener is called only in the task that handles
\* a data_update frame and only with that frame's payload, and that task calls
\* every listener registered for the frame's topic before it ends, so the
\* notifications of a frame are complete before the next frame is handled.
C24_DeliveryInOrder ==
    /\ [][ cout'.delivered # <<>>
           => ( /\ out'.op = "message"
                /\ out'.frame.json
                /\ out'.frame.value.type = "data_update"
                /\ \A i \in DOMAIN cout'.delivered :
                       /\ cout'.delivered[i][2] = out'.frame.value.data
                       /\ TopicOf(cout'.delivered[i][1]) = out'.frame.value.data_type
                       /\ Mounted(ConsumerWorld, cout'.delivered[i][1]) ) ]_vars
    /\ [][ DataUpdateTask
           => \A c \in Consumers :
                  (Mounted(ConsumerWorld, c) /\ TopicOf(c) = out'.frame.value.data_type)
                      => Deliveries(c)' = 1 ]_vars

\* the frame games d1 was delivered to both useGames consumers in its own task
C24_Witness ==
    /\ out.op = "message"
    /\ out.frame.text = "games d1"
    /\ cout.threw = {}
    /\ Len(cout.delivered) = 2
    /\ \A i \in DOMAIN cout.delivered : cout.delivered[i][2] = "d1"

\* the tasks of the connection's lifecycle
LifecycleOps == {"mount", "unmount", "manualReconnect", "connectDelayFire",
                 "reconnectFire", "pingFire", "open", "close", "fail"}

\* C25: the registrations on the bus are independent of the connection: no
\* task of the connection's lifecycle (start, stop, manual reconnect, timers,
\* open, close, failure) adds or removes a registration; registering and
\* unregistering change nothing of the connection; and an update that arrives
\* on whichever socket the manager holds reaches every handler registered then.
C25_SubscriptionsOutliveConnection ==
    /\ [][ out'.op \in LifecycleOps => listeners' = listeners ]_vars
    /\ [][ out'.op \in {"consumerMount", "consumerUnmount"}
           => UNCHANGED <<connectionStatus, isConnected, wsRef, sockets, timers,
                          reconnectTimeoutRef, connectDelayRef, pingIntervalRef,
                          reconnectAttemptsRef, isConnectingRef, shouldReconnect,
                          lastMessage>> ]_vars
    /\ [][ (out'.op = "message" /\ out'.frame.text = "games d1")
           => ( /\ listeners' = listeners
                /\ \A c \in Notified("gamesUpdated") : Deliveries(c)' = 1 ) ]_vars

\* manual reconnect replaced an open connection; the handler that received an
\* update from the old connection (its timer is pending) is still registered
C25_Witness ==
    /\ out.op = "manualReconnect"
    /\ out.busyBefore
    /\ out.connect = "created"
    /\ Mounted(ConsumerWorld, "games1")
    /\ TimerPending(ConsumerWorld, "games1")

\* C26: a coalescing consumer never has more than one refresh timer pending,
\* and a consumer that is not mounted has none; when the timer fires its
\* record is gone, and a notification leaves exactly one timer with the whole
\* window ahead of it.
C26_OnePendingTimer ==
    /\ [](\A c \in Consumers :
              /\ Cardinality(TimersOf(c)) <= 1
              /\ ~Mounted(ConsumerWorld, c) => TimersOf(c) = {})
    /\ [][ out'.op = "invalidateFire"
           => ( /\ \A x \in invalidateTimer' : x.c # cout'.c
                /\ cout'.refreshed = <<<<cout'.c, "games">>>> ) ]_vars
    /\ [][ (out'.op = "notify" /\ out'.dispatched[1][1] = "gamesUpdated")
           => \A c \in Notified("gamesUpdated") :
                  TimersOf(c)' = {[c |-> c, left |-> CoalesceMs]} ]_vars

\* the timer of games1 fired and left no record while games1 stays mounted
\* and the timer of games2, due at the same time, has not fired yet
C26_Witness ==
    /\ out.op = "invalidateFire"
    /\ cout.c = "games1"
    /\ cout.refreshed = <<<<"games1", "games">>>>
    /\ TimersOf("games1") = {}
    /\ Mounted(ConsumerWorld, "games1")
    /\ TimersOf("games2") = {[c |-> "games2", left |-> 0]}

\* C27: stopping the manager cancels the coalescing timers too: the task that
\* stops it leaves no invalidate timer pending, and no invalidate timer fires
\* a refresh while the manager is stopped, whether or not its consumer was
\* torn down.
C27_NoRefreshAfterStop ==
    /\ [][ out'.op = "unmount" => invalidateTimer' = {} ]_vars
    /\ [][ (out'.op = "invalidateFire" /\ started) => shouldReconnect ]_vars

\* C28: the two status outputs agree in every state: isConnected is true
\* exactly when connectionStatus is 'connected'.
C28_StatusOutputsAgree == isConnected <=> (connectionStatus = "connected")

\* what manual reconnect leaves behind when the new socket was created: the
\* socket held before is no longer active, the only active socket is the new
\* one, connecting, the counter is 0 and no reconnect or heartbeat timer is
\* pending
SupersededByOne ==
    /\ reconnectAttemptsRef' = 0
    /\ wsRef' # NULL
    /\ wsRef' # wsRef
    /\ wsRef' \notin DOMAIN sockets
    /\ ActiveSockets' = {wsRef'}
    /\ sockets'[wsRef'].readyState = "CONNECTING"
    /\ connectionStatus' = "connecting"
    /\ \A t \in timers' : t.kind \notin {"reconnect", "ping"}
    /\ reconnectTimeoutRef' \notin {t.id : t \in timers'}

\* C29 as stated: manual reconnect in any running state supersedes the socket,
\* cancels the reconnect and heartbeat timers, resets the counter to 0 and
\* leaves exactly one socket, connecting.
C29_Original ==
    [][ (out'.op = "manualReconnect" /\ Running) => SupersededByOne ]_vars

\* C29 amended: so it is when new WebSocket(url) does not throw in the call; when
\* it throws, no socket is active, the failure was counted once (counter 1) and
\* the only reconnect timer is the one the call itself scheduled, for 2000 ms;
\* in both cases no reconnect timer from before the call and no heartbeat
\* timer is left.
C29_ManualReconnectSupersedes ==
    [][ (out'.op = "manualReconnect" /\ Running)
        => /\ out'.connect \in {"created", "threw"}
           /\ out'.connect = "created" => SupersededByOne
           /\ out'.connect = "threw"
                  => ( /\ ActiveSockets' = {}
                       /\ wsRef' = NULL
                       /\ reconnectAttemptsRef' = 1
                       /\ out'.scheduled = ExpectedDelay(1)
                       /\ \E t \in timers' :
                              /\ t.kind = "reconnect"
                              /\ t \notin timers
                              /\ t.id = reconnectTimeoutRef'
                              /\ \A u \in timers' : u.kind = "reconnect" => u = t
                       /\ \A t \in timers' : t.kind # "ping" ) ]_vars

\* manual reconnect, called after failures while the manager held no active
\* socket, reset the counter, left no reconnect timer and created the new socket
C29_Witness ==
    /\ out.op = "manualReconnect"
    /\ out.attemptsBefore >= 2
    /\ ~out.busyBefore
    /\ out.connect = "created"
    /\ reconnectAttemptsRef = 0
    /\ ~ReconnectPending
    /\ ActiveSockets = {wsRef}

\* the reconnect timers pending
ReconnectTimers == {t \in timers : t.kind = "reconnect"}

\* C30: at no time is more than one reconnect timer pending; the task in which
\* the held socket of a running manager fails or closes (error and close
\* delivered together, or close alone) adds exactly 1 to the attempt counter
\* and leaves exactly one reconnect timer, a new one, with the delay of the
\* new count; events of a socket that is not held, or of a stopped manager,
\* count nothing and schedule nothing; an attempt that fails because
\* new WebSocket(url) throws in a timer's connect() is counted the same way.
C30_OneCountOneTimerPerFailure ==
    /\ [](Cardinality(ReconnectTimers) <= 1)
    /\ [][ out'.op \in {"close", "fail"}
           => IF out'.ws = wsRef /\ shouldReconnect
              THEN /\ reconnectAttemptsRef' = reconnectAttemptsRef + 1
                   /\ out'.scheduled = ExpectedDelay(reconnectAttemptsRef')
                   /\ Cardinality(ReconnectTimers') = 1
                   /\ \A t \in ReconnectTimers' :
                          /\ t \notin timers
                          /\ t.delay = out'.scheduled
                          /\ t.id = reconnectTimeoutRef'
              ELSE /\ reconnectAttemptsRef' = reconnectAttemptsRef
                   /\ ReconnectTimers' = ReconnectTimers
                   /\ out'.scheduled = 0 ]_vars
    /\ [][ (out'.op \in {"connectDelayFire", "reconnectFire"} /\ out'.connect = "threw")
           => ( /\ reconnectAttemptsRef' = reconnectAttemptsRef + 1
                /\ out'.scheduled = ExpectedDelay(reconnectAttemptsRef')
                /\ Cardinality(ReconnectTimers') = 1
                /\ \A t \in ReconnectTimers' : t \notin timers ) ]_vars

\* a connection attempt failed (error and close in one task), the third failure
\* in a row: the counter went from 2 to 3 and one timer of 8000 ms is pending
C30_Witness ==
    /\ out.op = "fail"
    /\ out.attemptsBefore = 2
    /\ reconnectAttemptsRef = 3
    /\ out.scheduled = 8000
    /\ Cardinality(ReconnectTimers) = 1

====
